---- MODULE Spec2Model ----
(***************************************************************************)
(* A model of DashboardManager (src/dashboard_manager.py): the in-memory   *)
(* dashboards map and global list set, the backing file and its .backup    *)
(* sibling, and the mutating operations of the class.                      *)
(*                                                                         *)
(* Encoding of Python values:                                              *)
(*   - a str is a sequence of one-character strings, so that strip() and   *)
(*     lower() are computed and not assumed;                               *)
(*   - a dict is a function whose domain is its set of keys;               *)
(*   - None is the token None; a value of `lists` that is not a list is    *)
(*     the token NotAList;                                                 *)
(*   - a dashboard id is a positive integer, NoId stands for "no id".      *)
(***************************************************************************)
EXTENDS Integers, Sequences, FiniteSets, TLC

VARIABLES dashboards, lists, file, backup, issued, explicit, call, steps

vars == <<dashboards, lists, file, backup, issued, explicit, call, steps>>

(***************************************************************************)
(* Bounds.                                                                 *)
(***************************************************************************)
\* updateStatus stops reporting captures once a dashboard has this many.
MaxCaptures == 2
\* The number of calls made on one store.
MaxSteps == 4

(***************************************************************************)
(* Python values.                                                          *)
(***************************************************************************)
None == "None"
NotAList == << <<"NotAList">> >>
NoId == 0
\* An id value that cannot be a dict key (a JSON array or object).
UnhashableId == -1
Ids == {1, 2, 3}
EmptyMeta == "{}"

Has(d, k) == k \in DOMAIN d
Get(d, k, default) == IF k \in DOMAIN d THEN d[k] ELSE default
Range(s) == {s[i] : i \in 1..Len(s)}
Put(f, k, v) == [x \in (DOMAIN f) \cup {k} |-> IF x = k THEN v ELSE f[x]]
Remove(f, k) == [x \in (DOMAIN f) \ {k} |-> f[x]]

\* bool(v) of a str-or-None value, as in `if last_captured:`.
Truthy(v) == v # None /\ v # ""

LowerChar(c) == CASE c = "A" -> "a" [] c = "B" -> "b" [] c = "X" -> "x" [] OTHER -> c
lower(s) == [i \in 1..Len(s) |-> LowerChar(s[i])]

RECURSIVE lstrip(_)
lstrip(s) == IF s # <<>> /\ Head(s) = " " THEN lstrip(Tail(s)) ELSE s
RECURSIVE rstrip(_)
rstrip(s) == IF s # <<>> /\ s[Len(s)] = " " THEN rstrip(SubSeq(s, 1, Len(s) - 1)) ELSE s
strip(s) == rstrip(lstrip(s))

\* utils.config.validate_url: the accepted URL syntax, over the modelled strings.
ValidUrls == {<<"u">>, <<"v">>, <<"w">>}
validate_url(url) == url \in ValidUrls

\* list(a_set): the members in the iteration order `ord` (a sequence holding
\* every label once); the order is the interpreter's, so the caller draws it.
RECURSIVE SetToList(_, _)
SetToList(S, ord) ==
    IF ord = <<>> THEN <<>>
    ELSE IF Head(ord) \in S THEN <<Head(ord)>> \o SetToList(S, Tail(ord))
    ELSE SetToList(S, Tail(ord))

Perms(S) == {p \in [1..Cardinality(S) -> S] : \A i, j \in 1..Cardinality(S) : p[i] = p[j] => i = j}

(***************************************************************************)
(* Persistence.  A store is [dashboards, lists, file, backup]; a file is   *)
(* NoFile, Partial (a write that broke off) or a saved document.           *)
(***************************************************************************)
NoFile == [kind |-> "none"]
Partial == [kind |-> "partial"]
Document(d, l) == [kind |-> "doc", dashboards |-> d, lists |-> l]

IoOk == [backup |-> "ok", write |-> "ok", restore |-> "ok"]
IoOutcomes == [backup : {"ok", "fail"}, write : {"ok", "fail_open", "fail_dump"},
               restore : {"ok", "fail"}]

\* The except branch of save_dashboards: restore the backing file from .backup.
save_restore(st, io) ==
    IF st.backup # NoFile /\ io.restore = "ok" THEN [st EXCEPT !.file = st.backup] ELSE st

\* Mutant of save_dashboards: the backup copy is made only when no .backup exists.
save_dashboards_first_backup(st, io) ==
    IF st.file # NoFile /\ io.backup = "fail" THEN save_restore(st, io)
    ELSE LET st1 == IF st.file # NoFile /\ st.backup = NoFile
                    THEN [st EXCEPT !.backup = st.file] ELSE st
         IN  CASE io.write = "ok" ->
                    [st1 EXCEPT !.file = Document(st1.dashboards, st1.lists)]
               [] io.write = "fail_open" -> save_restore(st1, io)
               [] OTHER -> save_restore([st1 EXCEPT !.file = Partial], io)

save_dashboards(st, io) ==
    IF st.file # NoFile /\ io.backup = "fail" THEN save_restore(st, io)
    ELSE LET st1 == IF st.file # NoFile THEN [st EXCEPT !.backup = st.file] ELSE st
         IN  CASE io.write = "ok" ->
                    [st1 EXCEPT !.file = Document(st1.dashboards, st1.lists)]
               [] io.write = "fail_open" -> save_restore(st1, io)
               [] OTHER -> save_restore([st1 EXCEPT !.file = Partial], io)

(***************************************************************************)
(* Loading.  A backing file that was not written by save_dashboards is a   *)
(* new-format document whose records may lack fields and which may lack    *)
(* the lists key, a legacy document (a dict of records; `junk` says that   *)
(* one of its values is not a dict), or JSON that is not a dict.  An id is *)
(* a JSON string on disk and in memory alike.                              *)
(***************************************************************************)
Legacy(d, junk) == [kind |-> "legacy", dashboards |-> d, junk |-> junk]
NotADict == [kind |-> "other"]

Schema == {"id", "name", "url", "lists", "description", "selected", "status",
           "created_at", "updated_at", "last_captured", "capture_count", "metadata"}

\* The defaults _migrate_dashboard_format gives to the fields it adds.
MigrationDefaults(dashboard_id, current_time) ==
    [id |-> dashboard_id, created_at |-> current_time, updated_at |-> current_time,
     status |-> "Ready", selected |-> FALSE, lists |-> <<>>, description |-> <<>>,
     last_captured |-> None, capture_count |-> 0, metadata |-> EmptyMeta]

_migrate_dashboard_format(dash, current_time) ==
    [k \in DOMAIN dash |->
        LET defaults == MigrationDefaults(k, current_time)
        IN  [f \in (DOMAIN dash[k]) \cup (DOMAIN defaults) |->
                IF f \in DOMAIN dash[k] THEN dash[k][f] ELSE defaults[f]]]

\* [dashboards, lists, adopted]: the store after load_dashboards, and whether
\* the records of the file were taken over.
load_dashboards(f, current_time) ==
    LET nothing == [dashboards |-> <<>>, lists |-> {}, adopted |-> FALSE]
    IN  CASE f.kind = "doc" ->
               [dashboards |-> _migrate_dashboard_format(f.dashboards, current_time),
                lists |-> Get(f, "lists", {}), adopted |-> TRUE]
          [] f.kind = "legacy" /\ ~f.junk ->
               [dashboards |-> _migrate_dashboard_format(f.dashboards, current_time),
                lists |-> UNION {Range(Get(f.dashboards[k], "lists", <<>>)) :
                                    k \in DOMAIN f.dashboards},
                adopted |-> TRUE]
          [] OTHER -> nothing

(***************************************************************************)
(* Validation and pruning.                                                 *)
(***************************************************************************)
\* Mutant of duplicate_name: the names are compared as written.
duplicate_name_case_sensitive(dash, name, exclude_id) ==
    \E k \in DOMAIN dash : k # exclude_id /\ Has(dash[k], "name") /\ dash[k].name = name

\* "Check for duplicate names": name is the stripped candidate.
duplicate_name(dash, name, exclude_id) ==
    \E k \in DOMAIN dash :
       k # exclude_id /\ Has(dash[k], "name") /\ lower(dash[k].name) = lower(name)

\* Mutant of duplicate_url: the candidate is compared with its own record only.
duplicate_url_self_only(dash, url, exclude_id) ==
    \E k \in DOMAIN dash : k = exclude_id /\ Has(dash[k], "url") /\ dash[k].url = url

\* "Check for duplicate URLs": url is the stripped candidate.
duplicate_url(dash, url, exclude_id) ==
    \E k \in DOMAIN dash : k # exclude_id /\ Has(dash[k], "url") /\ dash[k].url = url

\* dashboard[key] raises KeyError in a duplicate check: some other stored
\* record (one loaded from a file) has no such field.
raises_KeyError(dash, key, exclude_id) ==
    \E k \in DOMAIN dash : k # exclude_id /\ ~Has(dash[k], key)

_validate_dashboard(dash, data, exclude_id) ==
    IF ~Has(data, "name") \/ strip(data.name) = <<>>
    THEN [valid |-> FALSE, error |-> "Dashboard name is required"]
    ELSE IF ~Has(data, "url") \/ strip(data.url) = <<>>
    THEN [valid |-> FALSE, error |-> "Dashboard URL is required"]
    ELSE IF ~validate_url(strip(data.url))
    THEN [valid |-> FALSE, error |-> "Invalid URL format"]
    ELSE IF duplicate_name(dash, strip(data.name), exclude_id)
    THEN [valid |-> FALSE, error |-> "Dashboard name already exists"]
    ELSE IF raises_KeyError(dash, "name", exclude_id)
    THEN [valid |-> FALSE, error |-> "Validation error"]
    ELSE IF duplicate_url(dash, strip(data.url), exclude_id)
    THEN [valid |-> FALSE, error |-> "Dashboard URL already exists"]
    ELSE IF raises_KeyError(dash, "url", exclude_id)
    THEN [valid |-> FALSE, error |-> "Validation error"]
    ELSE IF Has(data, "lists") /\ data.lists = NotAList
    THEN [valid |-> FALSE, error |-> "Lists must be a list of strings"]
    ELSE IF Has(data, "lists") /\ \E i \in 1..Len(data.lists) : strip(data.lists[i]) = <<>>
    THEN [valid |-> FALSE, error |-> "All list names must be non-empty strings"]
    ELSE [valid |-> TRUE, error |-> None]

\* Mutant of _cleanup_unused_lists: no label is removed.
_cleanup_nothing(dash, ls) == ls

_cleanup_unused_lists(dash, ls) ==
    LET used_lists == UNION {Range(dash[k].lists) : k \in DOMAIN dash}
    IN  ls \ (ls \ used_lists)

(***************************************************************************)
(* Dashboard operations.  Each returns [st, ok]: the store after the call  *)
(* and the call's result.                                                  *)
(***************************************************************************)
\* `newid` is the value generate_id() returns if it is called.
add_dashboard(st, data, now, newid, io) ==
    IF ~_validate_dashboard(st.dashboards, data, NoId).valid
    THEN [st |-> st, ok |-> FALSE]
    ELSE LET id == IF Has(data, "id") THEN data.id ELSE newid
             dashboard ==
                 [id |-> id,
                  name |-> strip(data.name),
                  url |-> strip(data.url),
                  lists |-> Get(data, "lists", <<>>),
                  description |-> strip(Get(data, "description", <<>>)),
                  selected |-> FALSE,
                  status |-> "Ready",
                  created_at |-> Get(data, "created_at", now),
                  updated_at |-> now,
                  last_captured |-> None,
                  capture_count |-> 0,
                  metadata |-> Get(data, "metadata", EmptyMeta)]
             st1 == [st EXCEPT !.lists = st.lists \cup Range(dashboard.lists),
                               !.dashboards = Put(st.dashboards, id, dashboard)]
         IN  IF id = UnhashableId
             \* self.dashboards[id] = dashboard raises TypeError after the
             \* labels were registered; the handler returns False, unsaved.
             THEN [st |-> [st EXCEPT !.lists = st.lists \cup Range(dashboard.lists)],
                   ok |-> FALSE]
             ELSE [st |-> save_dashboards(st1, io), ok |-> TRUE]

\* Mutant of update_field: capture_count is not among the protected keys.
update_field_count_writable(dashboard, key, value, ord) ==
    IF key \in {"id", "created_at"} THEN dashboard[key]
    ELSE IF key \in {"name", "description", "url"} THEN strip(value)
    ELSE IF key = "lists"
         THEN SetToList(IF value = NotAList THEN {} ELSE Range(value), ord)
    ELSE value

\* One pass of the `for key, value in update_data.items()` loop body, on the
\* dashboard record alone (the global list set is handled by the caller).
update_field(dashboard, key, value, ord) ==
    IF key \in {"id", "created_at", "capture_count"} THEN dashboard[key]
    ELSE IF key \in {"name", "description", "url"} THEN strip(value)
    ELSE IF key = "lists"
         THEN SetToList(IF value = NotAList THEN {} ELSE Range(value), ord)
    ELSE value

update_dashboard(st, dashboard_id, update_data, now, ord, io) ==
    IF dashboard_id \notin DOMAIN st.dashboards THEN [st |-> st, ok |-> FALSE]
    ELSE LET dashboard == st.dashboards[dashboard_id]
             temp_data == [k \in (DOMAIN dashboard) \cup (DOMAIN update_data) |->
                              IF k \in DOMAIN update_data THEN update_data[k]
                              ELSE dashboard[k]]
         IN  IF (Has(update_data, "name") \/ Has(update_data, "url"))
                /\ ~_validate_dashboard(st.dashboards, temp_data, dashboard_id).valid
             THEN [st |-> st, ok |-> FALSE]
             ELSE LET d1 == [k \in (DOMAIN dashboard) \cup (DOMAIN update_data) |->
                                IF k \in DOMAIN update_data
                                THEN update_field(dashboard, k, update_data[k], ord)
                                ELSE dashboard[k]]
                      d2 == [d1 EXCEPT !.updated_at = now]
                      dash1 == [st.dashboards EXCEPT ![dashboard_id] = d1]
                      dash2 == [st.dashboards EXCEPT ![dashboard_id] = d2]
                      lists1 == IF Has(update_data, "lists")
                                THEN _cleanup_unused_lists(dash1,
                                         st.lists \cup Range(d1.lists))
                                ELSE st.lists
                      st1 == [st EXCEPT !.dashboards = dash2, !.lists = lists1]
                  IN  [st |-> save_dashboards(st1, io), ok |-> TRUE]

\* Mutant of delete_each: the loop ends at the first id that is not stored.
RECURSIVE delete_each_until_unknown(_, _)
delete_each_until_unknown(dash, dashboard_ids) ==
    IF dashboard_ids = <<>> \/ Head(dashboard_ids) \notin DOMAIN dash THEN dash
    ELSE delete_each_until_unknown(Remove(dash, Head(dashboard_ids)), Tail(dashboard_ids))

\* The loop of delete_dashboards: the map with every listed id removed.
RECURSIVE delete_each(_, _)
delete_each(dash, dashboard_ids) ==
    IF dashboard_ids = <<>> THEN dash
    ELSE delete_each(IF Head(dashboard_ids) \in DOMAIN dash
                     THEN Remove(dash, Head(dashboard_ids)) ELSE dash,
                     Tail(dashboard_ids))

delete_dashboards(st, dashboard_ids, io) ==
    IF dashboard_ids = <<>> THEN [st |-> st, ok |-> FALSE]
    ELSE LET dash1 == delete_each(st.dashboards, dashboard_ids)
             deleted_names == (DOMAIN st.dashboards) \ (DOMAIN dash1)
         IN  IF deleted_names # {}
             THEN LET st1 == [st EXCEPT !.dashboards = dash1,
                                        !.lists = _cleanup_unused_lists(dash1, st.lists)]
                  IN  [st |-> save_dashboards(st1, io), ok |-> TRUE]
             ELSE [st |-> st, ok |-> FALSE]

delete_dashboard(st, dashboard_id, io) == delete_dashboards(st, <<dashboard_id>>, io)

\* Mutant of update_dashboard_status: `if last_captured is not None`.
update_dashboard_status_not_none(st, dashboard_id, status, last_captured, now, io) ==
    IF dashboard_id \notin DOMAIN st.dashboards THEN [st |-> st, ok |-> FALSE]
    ELSE LET dashboard == st.dashboards[dashboard_id]
             d1 == [dashboard EXCEPT !.status = status, !.updated_at = now]
             d2 == IF last_captured # None
                   THEN [d1 EXCEPT !.last_captured = last_captured,
                                   !.capture_count = dashboard.capture_count + 1]
                   ELSE d1
             st1 == [st EXCEPT !.dashboards[dashboard_id] = d2]
         IN  [st |-> save_dashboards(st1, io), ok |-> TRUE]

update_dashboard_status(st, dashboard_id, status, last_captured, now, io) ==
    IF dashboard_id \notin DOMAIN st.dashboards THEN [st |-> st, ok |-> FALSE]
    ELSE LET dashboard == st.dashboards[dashboard_id]
             d1 == [dashboard EXCEPT !.status = status, !.updated_at = now]
             d2 == IF Truthy(last_captured)
                   THEN [d1 EXCEPT !.last_captured = last_captured,
                                   !.capture_count = dashboard.capture_count + 1]
                   ELSE d1
             st1 == [st EXCEPT !.dashboards[dashboard_id] = d2]
         IN  [st |-> save_dashboards(st1, io), ok |-> TRUE]

(***************************************************************************)
(* List operations.                                                        *)
(***************************************************************************)
\* Mutant of add_list: the call reports whether the save wrote the file.
add_list_reports_save(st, list_name, io) ==
    LET name == strip(list_name)
    IN  IF name = <<>> THEN [st |-> st, ok |-> FALSE]
        ELSE IF name \in st.lists THEN [st |-> st, ok |-> FALSE]
        ELSE [st |-> save_dashboards([st EXCEPT !.lists = st.lists \cup {name}], io),
              ok |-> io.write = "ok"]

add_list(st, list_name, io) ==
    LET name == strip(list_name)
    IN  IF name = <<>> THEN [st |-> st, ok |-> FALSE]
        ELSE IF name \in st.lists THEN [st |-> st, ok |-> FALSE]
        ELSE [st |-> save_dashboards([st EXCEPT !.lists = st.lists \cup {name}], io),
              ok |-> TRUE]

\* Mutant of rename_list: only the first occurrence in a dashboard is replaced.
rename_list_first_only(st, old_name, new_name, now, io) ==
    LET old == strip(old_name)
        new == strip(new_name)
    IN  IF old = <<>> \/ new = <<>> THEN [st |-> st, ok |-> FALSE]
        ELSE IF old \notin st.lists THEN [st |-> st, ok |-> FALSE]
        ELSE IF new \in st.lists /\ new # old THEN [st |-> st, ok |-> FALSE]
        ELSE LET dash1 == [k \in DOMAIN st.dashboards |->
                              LET d == st.dashboards[k]
                                  first == CHOOSE i \in 1..Len(d.lists) :
                                              /\ d.lists[i] = old
                                              /\ \A j \in 1..(i - 1) : d.lists[j] # old
                              IN  IF old \in Range(d.lists)
                                  THEN [d EXCEPT !.lists[first] = new, !.updated_at = now]
                                  ELSE d]
                 st1 == [st EXCEPT !.dashboards = dash1,
                                   !.lists = (st.lists \ {old}) \cup {new}]
             IN  [st |-> save_dashboards(st1, io), ok |-> TRUE]

rename_list(st, old_name, new_name, now, io) ==
    LET old == strip(old_name)
        new == strip(new_name)
    IN  IF old = <<>> \/ new = <<>> THEN [st |-> st, ok |-> FALSE]
        ELSE IF old \notin st.lists THEN [st |-> st, ok |-> FALSE]
        ELSE IF new \in st.lists /\ new # old THEN [st |-> st, ok |-> FALSE]
        ELSE LET dash1 == [k \in DOMAIN st.dashboards |->
                              LET d == st.dashboards[k]
                              IN  IF old \in Range(d.lists)
                                  THEN [d EXCEPT
                                          !.lists = [i \in 1..Len(d.lists) |->
                                                       IF d.lists[i] = old THEN new
                                                       ELSE d.lists[i]],
                                          !.updated_at = now]
                                  ELSE d]
                 st1 == [st EXCEPT !.dashboards = dash1,
                                   !.lists = (st.lists \ {old}) \cup {new}]
             IN  [st |-> save_dashboards(st1, io), ok |-> TRUE]

delete_list(st, list_name, now, io) ==
    LET name == strip(list_name)
    IN  IF name = <<>> THEN [st |-> st, ok |-> FALSE]
        ELSE IF name \notin st.lists THEN [st |-> st, ok |-> FALSE]
        ELSE LET dash1 == [k \in DOMAIN st.dashboards |->
                              LET d == st.dashboards[k]
                              IN  IF name \in Range(d.lists)
                                  THEN [d EXCEPT
                                          !.lists = SelectSeq(d.lists,
                                                       LAMBDA l : l # name),
                                          !.updated_at = now]
                                  ELSE d]
                 st1 == [st EXCEPT !.dashboards = dash1, !.lists = st.lists \ {name}]
             IN  [st |-> save_dashboards(st1, io), ok |-> TRUE]

(***************************************************************************)
(* Import.  An import file is [readable, data]: data is the parsed JSON    *)
(* dict; each entry of data.dashboards is [kind, d] with kind "dict" (a    *)
(* JSON object d) or "nonmapping" (any other JSON value).  In a result,    *)
(* errors is the length of the errors list, and log (not a field of the    *)
(* code's result) keeps, per record processed, the operation it was routed *)
(* to and whether that operation returned True.                            *)
(***************************************************************************)
NewResults == [success |-> TRUE, imported_dashboards |-> 0, updated_dashboards |-> 0,
               skipped_dashboards |-> 0, imported_lists |-> 0, errors |-> 0, log |-> <<>>]
FailedResults == [success |-> FALSE, imported_dashboards |-> 0, updated_dashboards |-> 0,
                  skipped_dashboards |-> 0, imported_lists |-> 0, errors |-> 1, log |-> <<>>]

Routed(res, route, ok) == [res EXCEPT !.log = Append(@, [route |-> route, ok |-> ok])]

\* An entry of the file's lists that cannot be a set member (a JSON array or
\* object): `list_name not in self.lists` raises TypeError.
UnhashableLabel == <<"[]">>

\* `for list_name in imported_lists`: [lists, n, raised] when the loop ends or
\* raises.
RECURSIVE import_lists(_, _, _)
import_lists(ls, n, imported_lists) ==
    IF imported_lists = <<>> THEN [lists |-> ls, n |-> n, raised |-> FALSE]
    ELSE IF Head(imported_lists) = UnhashableLabel
         THEN [lists |-> ls, n |-> n, raised |-> TRUE]
    ELSE IF Head(imported_lists) \notin ls
         THEN import_lists(ls \cup {Head(imported_lists)}, n + 1, Tail(imported_lists))
         ELSE import_lists(ls, n, Tail(imported_lists))

\* Mutant of import_records: a failed update is counted as updated.
RECURSIVE import_records_update_uncounted(_, _, _, _, _, _, _, _)
import_records_update_uncounted(st, res, recs, merge, now, gen, ord, io) ==
    IF recs = <<>> THEN [st |-> st, res |-> res]
    ELSE LET rec == Head(recs)
         IN  IF rec.kind = "nonmapping"
             \* dashboard_data.get raises in the try and again in its handler:
             \* the outer handler returns the failure result.
             THEN [st |-> st, res |-> FailedResults]
             ELSE LET dashboard_id == Get(rec.d, "id", NoId)
                  IN  IF merge /\ dashboard_id = UnhashableId
                      THEN import_records_update_uncounted(st,
                                   Routed([res EXCEPT !.errors = @ + 1], "error", FALSE),
                                   Tail(recs), merge, now, gen, ord, io)
                      ELSE IF merge /\ dashboard_id \in DOMAIN st.dashboards
                      THEN LET r == update_dashboard(st, dashboard_id, rec.d, now, ord, io)
                           IN  import_records_update_uncounted(r.st,
                                   Routed(IF r.ok
                                          THEN [res EXCEPT !.updated_dashboards = @ + 1]
                                          ELSE [res EXCEPT !.updated_dashboards = @ + 1],
                                          "update", r.ok),
                                   Tail(recs), merge, now, gen, ord, io)
                      ELSE LET draws == ~Has(rec.d, "id")
                                         /\ _validate_dashboard(st.dashboards, rec.d, NoId).valid
                               r == add_dashboard(st, rec.d, now,
                                                  IF draws THEN Head(gen) ELSE NoId, io)
                           IN  import_records_update_uncounted(r.st,
                                   Routed(IF r.ok
                                          THEN [res EXCEPT !.imported_dashboards = @ + 1]
                                          ELSE [res EXCEPT !.skipped_dashboards = @ + 1],
                                          "create", r.ok),
                                   Tail(recs), merge, now,
                                   IF draws THEN Tail(gen) ELSE gen, ord, io)

\* `for dashboard_data in imported_dashboards`: [st, res] after the loop; `gen`
\* holds the values generate_id() returns, in order.
RECURSIVE import_records(_, _, _, _, _, _, _, _)
import_records(st, res, recs, merge, now, gen, ord, io) ==
    IF recs = <<>> THEN [st |-> st, res |-> res]
    ELSE LET rec == Head(recs)
         IN  IF rec.kind = "nonmapping"
             \* dashboard_data.get raises in the try and again in its handler:
             \* the outer handler returns the failure result.
             THEN [st |-> st, res |-> FailedResults]
             ELSE LET dashboard_id == Get(rec.d, "id", NoId)
                  IN  IF merge /\ dashboard_id = UnhashableId
                      THEN import_records(st,
                                   Routed([res EXCEPT !.errors = @ + 1], "error", FALSE),
                                   Tail(recs), merge, now, gen, ord, io)
                      ELSE IF merge /\ dashboard_id \in DOMAIN st.dashboards
                      THEN LET r == update_dashboard(st, dashboard_id, rec.d, now, ord, io)
                           IN  import_records(r.st,
                                   Routed(IF r.ok
                                          THEN [res EXCEPT !.updated_dashboards = @ + 1]
                                          ELSE [res EXCEPT !.skipped_dashboards = @ + 1],
                                          "update", r.ok),
                                   Tail(recs), merge, now, gen, ord, io)
                      ELSE LET draws == ~Has(rec.d, "id")
                                         /\ _validate_dashboard(st.dashboards, rec.d, NoId).valid
                               r == add_dashboard(st, rec.d, now,
                                                  IF draws THEN Head(gen) ELSE NoId, io)
                           IN  import_records(r.st,
                                   Routed(IF r.ok
                                          THEN [res EXCEPT !.imported_dashboards = @ + 1]
                                          ELSE [res EXCEPT !.skipped_dashboards = @ + 1],
                                          "create", r.ok),
                                   Tail(recs), merge, now,
                                   IF draws THEN Tail(gen) ELSE gen, ord, io)

import_dashboards(st, f, merge, now, gen, ord, io) ==
    IF ~f.readable \/ ~Has(f.data, "dashboards") THEN [st |-> st, res |-> FailedResults]
    ELSE LET st0 == IF ~merge THEN [st EXCEPT !.dashboards = <<>>, !.lists = {}] ELSE st
             il == import_lists(st0.lists, 0, Get(f.data, "lists", <<>>))
             st1 == [st0 EXCEPT !.lists = il.lists]
         IN  IF il.raised THEN [st |-> st1, res |-> FailedResults]
             ELSE import_records(st1, [NewResults EXCEPT !.imported_lists = il.n],
                                 f.data.dashboards, merge, now, gen, ord, io)

(***************************************************************************)
(* Queries.  A result is the sequence of the ids of the dashboards that    *)
(* the method returns; `order` is the iteration order of self.dashboards.  *)
(***************************************************************************)
\* Python's `q in s` on two strings.
IsIn(q, s) == \E i \in 0..(Len(s) - Len(q)) : SubSeq(s, i + 1, i + Len(q)) = q

get_all_dashboards(dash, order) == order

\* Mutant of search_one: no `continue` after a match in the name.
search_one_no_continue(dashboard, id, query_lower) ==
    (IF IsIn(query_lower, lower(Get(dashboard, "name", <<>>))) THEN <<id>> ELSE <<>>)
    \o (IF IsIn(query_lower, lower(Get(dashboard, "url", <<>>))) THEN <<id>>
        ELSE IF IsIn(query_lower, lower(Get(dashboard, "description", <<>>))) THEN <<id>>
        ELSE IF \E i \in 1..Len(Get(dashboard, "lists", <<>>)) :
                   IsIn(query_lower, lower(dashboard.lists[i])) THEN <<id>>
        ELSE <<>>)

\* One pass of the loop of search_dashboards: what it appends for a dashboard.
search_one(dashboard, id, query_lower) ==
    IF IsIn(query_lower, lower(Get(dashboard, "name", <<>>))) THEN <<id>>
    ELSE IF IsIn(query_lower, lower(Get(dashboard, "url", <<>>))) THEN <<id>>
    ELSE IF IsIn(query_lower, lower(Get(dashboard, "description", <<>>))) THEN <<id>>
    ELSE IF \E i \in 1..Len(Get(dashboard, "lists", <<>>)) :
               IsIn(query_lower, lower(dashboard.lists[i])) THEN <<id>>
    ELSE <<>>

RECURSIVE search_loop(_, _, _)
search_loop(dash, order, query_lower) ==
    IF order = <<>> THEN <<>>
    ELSE search_one(dash[Head(order)], Head(order), query_lower)
         \o search_loop(dash, Tail(order), query_lower)

search_dashboards(dash, query, order) ==
    LET query_lower == strip(lower(query))
    IN  IF query_lower = <<>> THEN get_all_dashboards(dash, order)
        ELSE search_loop(dash, order, query_lower)

\* list_counts[list_name] after the loops of get_list_statistics over the
\* dashboards of `ids`: one increment per entry of a dashboard's lists.
RECURSIVE list_count(_, _, _)
list_count(dash, ids, list_name) ==
    IF ids = {} THEN 0
    ELSE LET k == CHOOSE id \in ids : TRUE
             dashboard_lists == Get(dash[k], "lists", <<>>)
         IN  Cardinality({i \in 1..Len(dashboard_lists) : dashboard_lists[i] = list_name})
             + list_count(dash, ids \ {k}, list_name)

\* most_used and least_used are the labels max() and min() pick; among labels
\* of equal count the pick depends on the iteration order of the set.
get_list_statistics(dash, ls, most_used, least_used) ==
    LET list_counts == [l \in ls |-> list_count(dash, DOMAIN dash, l)]
    IN  [total_lists |-> Cardinality(ls),
         total_dashboards |-> Cardinality(DOMAIN dash),
         list_usage |-> list_counts,
         dashboards_without_lists |->
             Cardinality({k \in DOMAIN dash : Get(dash[k], "lists", <<>>) = <<>>}),
         most_used_list |-> IF ls = {} THEN None
                            ELSE [name |-> most_used, count |-> list_counts[most_used]],
         least_used_list |-> IF ls = {} THEN None
                             ELSE [name |-> least_used, count |-> list_counts[least_used]]]

(***************************************************************************)
(* Export.  json.dump writes None as null and json.load reads it back; the *)
(* other values of a record (strings, numbers, booleans, lists) are JSON   *)
(* values already.                                                         *)
(***************************************************************************)
JsonNull == "null"
json_dump(d) == [k \in DOMAIN d |-> IF k = "last_captured" /\ d[k] = None THEN JsonNull ELSE d[k]]
json_load(d) == [k \in DOMAIN d |-> IF k = "last_captured" /\ d[k] = JsonNull THEN None ELSE d[k]]

\* The document export_dashboards writes, as import_dashboards reads it back:
\* `order` is the iteration order of self.dashboards, `ord` that of self.lists.
export_dashboards(st, order, ord) ==
    [readable |-> TRUE,
     data |-> ("total_dashboards" :> Cardinality(DOMAIN st.dashboards))
              @@ ("total_lists" :> Cardinality(st.lists))
              @@ ("dashboards" :> [i \in 1..Len(order) |->
                                     [kind |-> "dict",
                                      d |-> json_load(json_dump(st.dashboards[order[i]]))]])
              @@ ("lists" :> SetToList(st.lists, ord))]

(***************************************************************************)
(* The state machine.  `call` records the last call: its operation, its    *)
(* arguments and its result; `issued` is every id that was ever a key of   *)
(* the map (generate_id never returns one of them again); `explicit` is    *)
(* the labels registered by add_list that no pruning has run over since.   *)
(***************************************************************************)
Idle == [op |-> "idle"]
\* A call may start: the caller holds no unread result and has calls left.
Ready == call = Idle /\ steps < MaxSteps

St == [dashboards |-> dashboards, lists |-> lists, file |-> file, backup |-> backup]

Returns(st, c) ==
    /\ dashboards' = st.dashboards
    /\ lists' = st.lists
    /\ file' = st.file
    /\ backup' = st.backup
    /\ issued' = issued \cup DOMAIN st.dashboards
    /\ explicit' = st.lists \cap
          (IF c.op = "addList" /\ c.ok THEN explicit \cup {strip(c.name)}
           ELSE IF c.ok /\ (c.op = "deleteMany"
                            \/ (c.op = "update" /\ Has(c.data, "lists")))
           THEN {}
           ELSE explicit)
    /\ call' = c
    /\ steps' = steps + 1

\* The values generate_id() may return: uuid4 never repeats an id.
generate_id == Ids \ issued

\* __init__ on a machine with no backing file: load_dashboards starts empty.
Init ==
    /\ dashboards = <<>>
    /\ lists = {}
    /\ file = NoFile
    /\ backup = NoFile
    /\ issued = {}
    /\ explicit = {}
    /\ call = Idle
    /\ steps = 0

Create(In) ==
    Ready /\ \E data \in In.create, now \in In.now, io \in In.io :
      \E newid \in IF Has(data, "id") \/ ~_validate_dashboard(dashboards, data, NoId).valid
                    THEN {NoId} ELSE generate_id :
        LET r == add_dashboard(St, data, now, newid, io)
        IN  Returns(r.st, [op |-> "create", data |-> data, ok |-> r.ok, io |-> io])

Update(In) ==
    Ready /\ \E id \in In.ids, data \in In.update, now \in In.now, ord \in In.ords, io \in In.io :
        LET r == update_dashboard(St, id, data, now, ord, io)
        IN  Returns(r.st, [op |-> "update", id |-> id, data |-> data, ok |-> r.ok, io |-> io])

DeleteMany(In) ==
    Ready /\ \E ids \in In.deletes, io \in In.io :
        LET r == delete_dashboards(St, ids, io)
        IN  Returns(r.st, [op |-> "deleteMany", ids |-> ids, ok |-> r.ok, io |-> io])

AddList(In) ==
    Ready /\ \E name \in In.labels, io \in In.io :
        LET r == add_list(St, name, io)
        IN  Returns(r.st, [op |-> "addList", name |-> name, ok |-> r.ok, io |-> io])

RenameList(In) ==
    Ready /\ \E old \in In.labels, new \in In.labels, now \in In.now, io \in In.io :
        LET r == rename_list(St, old, new, now, io)
        IN  Returns(r.st, [op |-> "renameList", old |-> old, new |-> new, ok |-> r.ok, io |-> io])

DeleteList(In) ==
    Ready /\ \E name \in In.labels, now \in In.now, io \in In.io :
        LET r == delete_list(St, name, now, io)
        IN  Returns(r.st, [op |-> "deleteList", name |-> name, ok |-> r.ok, io |-> io])

UpdateStatus(In) ==
    Ready /\ \E id \in In.ids, status \in In.status, last_captured \in In.captured,
       now \in In.now, io \in In.io :
        /\ (id \in DOMAIN dashboards /\ Truthy(last_captured))
              => dashboards[id].capture_count < MaxCaptures
        /\ LET r == update_dashboard_status(St, id, status, last_captured, now, io)
           IN  Returns(r.st, [op |-> "updateStatus", id |-> id, status |-> status,
                              last_captured |-> last_captured, ok |-> r.ok, io |-> io])

\* The records of file f that generate_id() may be called for.
NoIdRecords(f) ==
    IF f.readable /\ Has(f.data, "dashboards")
    THEN {i \in 1..Len(f.data.dashboards) :
            f.data.dashboards[i].kind = "dict" /\ ~Has(f.data.dashboards[i].d, "id")}
    ELSE {}

Import(In) ==
    Ready /\ \E f \in In.files, merge \in BOOLEAN, now \in In.now, ord \in In.ords, io \in In.io :
      \E fresh \in SUBSET generate_id :
        /\ Cardinality(fresh) = Cardinality(NoIdRecords(f))
        /\ \E gen \in Perms(fresh) :
             LET r == import_dashboards(St, f, merge, now, gen, ord, io)
             IN  Returns(r.st, [op |-> "import", file |-> f, merge |-> merge,
                                res |-> r.res, ok |-> r.res.success, io |-> io])

\* export_dashboards: nothing of the store changes; the caller holds the document.
Export(In) ==
    Ready /\ \E order \in Perms(DOMAIN dashboards), ord \in In.ords :
        Returns(St, [op |-> "export", doc |-> export_dashboards(St, order, ord),
                     ok |-> TRUE, io |-> IoOk])

\* import_dashboards(path, merge=False) of the document the caller has just exported.
ImportExported(In) ==
    /\ call.op = "export" /\ steps < MaxSteps
    /\ \E now \in In.now, ord \in In.ords, io \in In.io :
         LET r == import_dashboards(St, call.doc, FALSE, now, <<>>, ord, io)
         IN  Returns(r.st, [op |-> "import", file |-> call.doc, merge |-> FALSE,
                            res |-> r.res, ok |-> r.res.success, io |-> io])

\* search_dashboards: nothing of the store changes.
Search(In) ==
    Ready /\ \E query \in In.queries, order \in Perms(DOMAIN dashboards) :
        Returns(St, [op |-> "search", query |-> query,
                     result |-> search_dashboards(dashboards, query, order),
                     ok |-> TRUE, io |-> IoOk])

\* get_list_statistics: nothing of the store changes.
Stats ==
    Ready /\ \E most_used, least_used \in IF lists = {} THEN {None} ELSE lists :
        LET n(l) == list_count(dashboards, DOMAIN dashboards, l)
        IN  /\ lists # {} => \A l \in lists : n(l) <= n(most_used) /\ n(least_used) <= n(l)
            /\ Returns(St, [op |-> "stats",
                            stats |-> get_list_statistics(dashboards, lists,
                                                          most_used, least_used),
                            ok |-> TRUE, io |-> IoOk])

\* load_dashboards, called again on the running manager.
Load(In) ==
    Ready /\ \E now \in In.now :
        LET r == load_dashboards(file, now)
        IN  Returns([St EXCEPT !.dashboards = r.dashboards, !.lists = r.lists],
                    [op |-> "load", adopted |-> r.adopted, ok |-> TRUE, io |-> IoOk])

(***************************************************************************)
(* Inputs.  A specification draws the arguments of its calls from an       *)
(* input profile: a record of finite sets of argument values.              *)
(***************************************************************************)
K(k, v) == k :> v
Rec(d) == [kind |-> "dict", d |-> d]
JsonFile(data) == [readable |-> TRUE, data |-> data]
Unreadable == [readable |-> FALSE, data |-> <<>>]

a == <<"a">>
b == <<"b">>
u == <<"u">>
v == <<"v">>
x == <<"x">>
y == <<"y">>
\* Labels with surrounding whitespace, and blank ones.
px == <<" ", "x">>
xp == <<"x", " ">>
blank == <<" ">>
empty == <<>>

\* Names and urls in depth (case, padding, blanks, explicit ids), captures,
\* the protected fields; one label.
InIdentity ==
    [create |->
        {K("name", n) @@ K("url", w) :
            n \in {a, <<"A">>, <<" ", "a">>, b, <<" ">>}, w \in {u, v}}
        \cup {K("name", b) @@ K("url", w) : w \in {<<"u", " ">>, <<"x">>, <<>>}}
        \cup {K("name", b), K("url", v), K("name", <<>>) @@ K("url", v)}
        \cup {K("id", 1) @@ K("name", a) @@ K("url", u),
              K("id", 1) @@ K("name", b) @@ K("url", v),
              K("id", 2) @@ K("name", b) @@ K("url", v)}
        \cup {K("name", b) @@ K("url", v) @@ K("lists", l) :
                 l \in {<<x>>, <<<<>>>>, NotAList}},
     update |->
        {K("name", n) : n \in {<<"A">>, <<"b", " ">>, <<>>}}
        \cup {K("url", w) : w \in {u, <<" ", "v">>, <<"x">>}}
        \cup {K("id", 2) @@ K("created_at", "t0") @@ K("capture_count", 5),
              K("name", a) @@ K("id", 3) @@ K("capture_count", 0),
              K("url", u) @@ K("lists", <<<<" ">>>>),
              K("lists", <<>>), K("status", "Done")},
     ids |-> {1, 2},
     deletes |-> {<<>>, <<1>>, <<2, 1>>, <<3>>, <<3, 1>>, <<2, 2>>},
     labels |-> {x, y, <<>>},
     status |-> {"Done"},
     captured |-> {None, "", "t1"},
     files |->
        {Unreadable,
         JsonFile(K("lists", <<x>>)),
         JsonFile(K("dashboards", <<>>) @@ K("lists", <<x>>)),
         JsonFile(K("dashboards",
                    <<Rec(K("id", 1) @@ K("name", a) @@ K("url", u)),
                      Rec(K("id", 2) @@ K("name", <<"A">>) @@ K("url", v))>>)),
         JsonFile(K("dashboards", <<Rec(K("name", b) @@ K("url", v))>>))},
     now |-> {"t1"},
     ords |-> {<<x, y>>},
     io |-> {IoOk}]

\* The caller has read the result of the last call.
Return ==
    /\ call # Idle
    /\ call' = Idle
    /\ UNCHANGED <<dashboards, lists, file, backup, issued, explicit, steps>>

\* Labels in depth (padding, blanks, duplicates, non-lists, pruning); two
\* names and two urls.
InLists ==
    [create |->
        {K("name", n[1]) @@ K("url", n[2]) : n \in {<<a, u>>, <<b, v>>}}
        \cup {K("name", n[1]) @@ K("url", n[2]) @@ K("lists", l) :
                 n \in {<<a, u>>, <<b, v>>}, l \in {<<x>>, <<x, y>>, <<x, x>>, <<px>>}}
        \cup {K("name", b) @@ K("url", v) @@ K("lists", l) : l \in {<<empty>>, NotAList}}
        \cup {K("id", 1) @@ K("name", a) @@ K("url", u) @@ K("lists", <<x>>),
              K("id", 1) @@ K("name", b) @@ K("url", v)},
     update |->
        {K("lists", l) : l \in {<<>>, <<y>>, <<y, x>>, <<x, x>>, <<blank>>, NotAList}}
        \cup {K("name", a) @@ K("lists", <<y>>),
              K("name", b) @@ K("lists", <<empty>>),
              K("description", <<" ", "d">>)},
     ids |-> {1, 2},
     deletes |-> {<<>>, <<1>>, <<2>>, <<1, 2>>},
     labels |-> {x, y, px, xp, empty},
     status |-> {"Done"},
     captured |-> {None},
     files |->
        {Unreadable,
         JsonFile(K("dashboards", <<>>) @@ K("lists", <<x>>)),
         JsonFile(K("dashboards",
                    <<Rec(K("id", 1) @@ K("name", a) @@ K("url", u)
                          @@ K("lists", <<x, y>>))>>)
                  @@ K("lists", <<y, empty>>))},
     now |-> {"t1"},
     ords |-> {<<x, y, px, blank, empty>>, <<empty, blank, px, y, x>>},
     io |-> {IoOk}]

NextWith(In) ==
    \/ Return
    \/ Create(In)
    \/ Update(In)
    \/ DeleteMany(In)
    \/ AddList(In)
    \/ RenameList(In)
    \/ DeleteList(In)
    \/ UpdateStatus(In)
    \/ Import(In)

Next == NextWith(InIdentity)

Spec == Init /\ [][Next]_vars

NextLists == NextWith(InLists)

SpecLists == Init /\ [][NextLists]_vars

\* Calls of create, update, delete and addList only.
NextCUD ==
    \/ Return
    \/ Create(InLists)
    \/ Update(InLists)
    \/ DeleteMany(InLists)
    \/ AddList(InLists)

SpecCUD == Init /\ [][NextCUD]_vars

\* Import files in depth (routing to update and create, records that fail,
\* ids that cannot be keys, records that are not mappings); two dashboards.
NonMapping == [kind |-> "nonmapping", d |-> <<>>]

InImport ==
    [create |-> {K("name", a) @@ K("url", u), K("id", 1) @@ K("name", b) @@ K("url", v)},
     update |-> {K("name", b), K("lists", <<y>>)},
     ids |-> {1},
     deletes |-> {<<1>>},
     labels |-> {x},
     status |-> {"Done"},
     captured |-> {"t1"},
     files |->
        {Unreadable,
         JsonFile(K("lists", <<x>>)),
         JsonFile(K("dashboards", <<>>) @@ K("lists", <<x, x, y>>)),
         JsonFile(K("dashboards",
                    <<Rec(K("id", 1) @@ K("name", a) @@ K("url", u)),
                      Rec(K("id", 1) @@ K("name", b) @@ K("url", v))>>)),
         JsonFile(K("dashboards",
                    <<Rec(K("id", 1) @@ K("description", <<"d">>)),
                      Rec(K("id", UnhashableId) @@ K("name", a) @@ K("url", u)),
                      Rec(K("name", b) @@ K("url", v) @@ K("lists", <<x>>)),
                      Rec(K("name", b))>>)),
         JsonFile(K("dashboards",
                    <<Rec(K("id", 2) @@ K("name", <<"c">>) @@ K("url", <<"w">>)),
                      NonMapping,
                      Rec(K("name", b) @@ K("url", v))>>)
                  @@ K("lists", <<y>>)),
         JsonFile(K("dashboards", <<Rec(K("name", b) @@ K("url", v))>>)
                  @@ K("lists", <<y, UnhashableLabel>>))},
     now |-> {"t1"},
     ords |-> {<<x, y>>},
     io |-> {IoOk}]

NextImport == NextWith(InImport)

SpecImport == Init /\ [][NextImport]_vars

\* Text in depth (case, substrings, padded and blank queries) in names, urls,
\* descriptions and labels.
InSearch ==
    [create |->
        {K("name", <<"A", "b">>) @@ K("url", u) @@ K("lists", <<<<"X", "y">>>>),
         K("name", <<"b", "a">>) @@ K("url", v) @@ K("description", <<"B", "a", "x">>),
         K("name", <<"u">>) @@ K("url", <<"w">>) @@ K("lists", <<x, <<"a", " ", "x">>>>)},
     update |-> {K("description", <<"x", "A">>), K("name", <<"y">>)},
     ids |-> {1, 2},
     deletes |-> {<<1>>},
     queries |-> {<<>>, <<" ">>, <<"a">>, <<"A", "B">>, <<" ", "B", "A">>, <<"a", " ">>,
                  <<" ", "x">>, <<"u">>, <<"x", "y">>, <<"y", "x">>},
     now |-> {"t1"},
     ords |-> {<<x, y>>},
     io |-> {IoOk}]

NextSearch ==
    \/ Return
    \/ Create(InSearch)
    \/ Update(InSearch)
    \/ DeleteMany(InSearch)
    \/ Search(InSearch)

SpecSearch == Init /\ [][NextSearch]_vars

\* Calls of create, update, delete and addList, and of the statistics.
NextStats ==
    \/ Return
    \/ Create(InLists)
    \/ Update(InLists)
    \/ DeleteMany(InLists)
    \/ AddList(InLists)
    \/ Stats

SpecStats == Init /\ [][NextStats]_vars

\* Backing files of every vintage: new-format with full and with partial
\* records, without the lists key, legacy, and files that are not adopted.
DiskDocs ==
    LET full == [id |-> 1, name |-> a, url |-> u, lists |-> <<x>>, description |-> <<"d">>,
                 selected |-> TRUE, status |-> "Done", created_at |-> "t0",
                 updated_at |-> "t0", last_captured |-> "t0", capture_count |-> 1,
                 metadata |-> EmptyMeta]
        old == K("name", b) @@ K("url", v) @@ K("lists", <<y>>)
        bare == K("url", <<"w">>)
    IN  {NoFile, Partial, NotADict,
         Document(1 :> full, {x}),
         Document((1 :> full) @@ (2 :> old), {x, y}),
         K("kind", "doc") @@ K("dashboards", 2 :> old),
         Document((1 :> full) @@ (3 :> bare), {}),
         Legacy((1 :> full) @@ (2 :> old), FALSE),
         Legacy(2 :> bare, FALSE),
         Legacy(2 :> old, TRUE)}

InLoad ==
    [create |-> {K("name", a) @@ K("url", u), K("name", <<"c">>) @@ K("url", <<"w">>)},
     ids |-> {1, 2},
     deletes |-> {<<1>>, <<3>>},
     status |-> {"Done"},
     captured |-> {None, "t1"},
     now |-> {"t1"},
     io |-> {IoOk}]

\* __init__ on a machine whose backing file is one of DiskDocs.
InitLoad ==
    \E f \in DiskDocs, now \in InLoad.now :
       LET r == load_dashboards(f, now)
       IN  /\ dashboards = r.dashboards
           /\ lists = r.lists
           /\ file = f
           /\ backup = NoFile
           /\ issued = DOMAIN r.dashboards
           /\ explicit = r.lists
           /\ call = [op |-> "load", adopted |-> r.adopted, ok |-> TRUE, io |-> IoOk]
           /\ steps = 0

NextLoad ==
    \/ Return
    \/ Load(InLoad)
    \/ Create(InLoad)
    \/ DeleteMany(InLoad)
    \/ UpdateStatus(InLoad)

SpecLoad == InitLoad /\ [][NextLoad]_vars

\* Saves whose backup copy, write or restore may fail; one label, two dashboards.
InIo ==
    [create |-> {K("name", a) @@ K("url", u), K("name", b) @@ K("url", v)},
     ids |-> {1},
     deletes |-> {<<1>>},
     labels |-> {x},
     status |-> {"Done"},
     captured |-> {None},
     now |-> {"t1"},
     io |-> IoOutcomes]

NextIo ==
    \/ Return
    \/ Create(InIo)
    \/ DeleteMany(InIo)
    \/ AddList(InIo)
    \/ UpdateStatus(InIo)

SpecIo == Init /\ [][NextIo]_vars

\* Every operation that saves once, with saves that may fail; one dashboard
\* name, two labels.
InSave ==
    [create |-> {K("name", a) @@ K("url", u) @@ K("lists", <<x>>)},
     update |-> {K("name", b), K("lists", <<y>>), K("url", <<"x">>)},
     ids |-> {1},
     deletes |-> {<<1>>},
     labels |-> {x, y},
     status |-> {"Done"},
     captured |-> {"t1"},
     now |-> {"t1"},
     ords |-> {<<x, y>>},
     io |-> IoOutcomes]

NextSave ==
    \/ Return
    \/ Create(InSave)
    \/ Update(InSave)
    \/ DeleteMany(InSave)
    \/ AddList(InSave)
    \/ RenameList(InSave)
    \/ DeleteList(InSave)
    \/ UpdateStatus(InSave)

SpecSave == Init /\ [][NextSave]_vars

\* Calls of every operation but a free import, and export followed by the
\* import of the exported document.
NextRoundTrip ==
    \/ Return
    \/ Create(InLists)
    \/ Update(InLists)
    \/ DeleteMany(InLists)
    \/ AddList(InLists)
    \/ RenameList(InLists)
    \/ DeleteList(InLists)
    \/ UpdateStatus(InLists)
    \/ Export(InLists)
    \/ ImportExported(InLists)

SpecRoundTrip == Init /\ [][NextRoundTrip]_vars

(***************************************************************************)
(* Claims.                                                                 *)
(***************************************************************************)
Blank(s) == \A i \in 1..Len(s) : s[i] = " "
EqIgnoringCase(s, t) == lower(s) = lower(t)
Trim(s) == IF Blank(s) THEN <<>>
           ELSE SubSeq(s, CHOOSE i \in 1..Len(s) : s[i] # " " /\ \A j \in 1..(i - 1) : s[j] = " ",
                          CHOOSE i \in 1..Len(s) : s[i] # " " /\ \A j \in (i + 1)..Len(s) : s[j] = " ")
UnionOfLists(dash) == UNION {Range(dash[k].lists) : k \in DOMAIN dash}

\* C1: no two distinct stored dashboards have names that are equal ignoring
\* case, and no two distinct stored dashboards have the same url.
C1_UniqueNameAndUrl ==
    \A i, j \in DOMAIN dashboards :
        i # j => /\ ~EqIgnoringCase(dashboards[i].name, dashboards[j].name)
                 /\ dashboards[i].url # dashboards[j].url

\* C1 witness: two dashboards are stored and an update has just renamed one.
C1_Witness ==
    /\ Cardinality(DOMAIN dashboards) = 2
    /\ call.op = "update" /\ call.ok /\ Has(call.data, "name")

\* The record of C2 fails validation, in the claim's words: blank or missing
\* name or url, invalid url, a name or url another dashboard has, or lists that
\* is not a sequence of non-blank strings.  `self` is the updated id (NoId for
\* a create).
FailsValidation(dash, rec, self) ==
    \/ ~Has(rec, "name") \/ ~Has(rec, "url")
    \/ Blank(rec.name) \/ Blank(rec.url)
    \/ Trim(rec.url) \notin ValidUrls
    \/ \E k \in (DOMAIN dash) \ {self} :
          EqIgnoringCase(dash[k].name, Trim(rec.name)) \/ dash[k].url = Trim(rec.url)
    \/ Has(rec, "lists") /\ (rec.lists = NotAList \/ \E l \in Range(rec.lists) : Blank(l))

Merged(d, partial) ==
    [k \in (DOMAIN d) \cup (DOMAIN partial) |-> IF Has(partial, k) THEN partial[k] ELSE d[k]]

\* C2: a create, or an update that supplies name or url, whose (merged) record
\* fails validation returns failure and leaves the dashboards map and the
\* global list set as they were.
C2_InvalidLeavesStateUnchanged ==
    [][((call'.op = "create" /\ FailsValidation(dashboards, call'.data, NoId))
        \/ (/\ call'.op = "update"
            /\ call'.id \in DOMAIN dashboards
            /\ (Has(call'.data, "name") \/ Has(call'.data, "url"))
            /\ FailsValidation(dashboards, Merged(dashboards[call'.id], call'.data),
                               call'.id)))
       => (~call'.ok /\ dashboards' = dashboards /\ lists' = lists)]_vars

\* C2 witness: an update of a stored dashboard to the name of another stored
\* dashboard has just failed.
C2_Witness ==
    /\ call.op = "update" /\ ~call.ok
    /\ call.id \in DOMAIN dashboards
    /\ Has(call.data, "name")
    /\ \E k \in (DOMAIN dashboards) \ {call.id} :
          EqIgnoringCase(dashboards[k].name, Trim(call.data.name))

\* C3: after any sequence of create, update and delete operations the global
\* list set is the union of the lists of the stored dashboards, but for labels
\* that addList registered and no pruning has run over since.
C3_ListsAreUnionOfAssignments ==
    /\ UnionOfLists(dashboards) \subseteq lists
    /\ (lists \ UnionOfLists(dashboards)) \subseteq explicit

MutatingOps == {"create", "update", "deleteMany", "addList", "renameList", "deleteList",
                "updateStatus", "import"}

\* C4: after every successful mutating operation returns (file writes
\* succeeding), the dashboards and lists stored in the backing file equal the
\* in-memory dashboards and global list set.
C4_FileEqualsMemoryAfterSuccess ==
    (call.op \in MutatingOps /\ call.ok) => file = Document(dashboards, lists)

\* The effect of updateStatus on the capture fields of a stored dashboard,
\* `reported` saying whether the call reports a capture.
CaptureEffect(reported) ==
    LET before == dashboards[call'.id]
        after == dashboards'[call'.id]
    IN  IF reported
        THEN /\ after.capture_count = before.capture_count + 1
             /\ after.last_captured = call'.last_captured
        ELSE /\ after.capture_count = before.capture_count
             /\ after.last_captured = before.last_captured

UnknownIdChangesNothing ==
    /\ ~call'.ok
    /\ UNCHANGED <<dashboards, lists, file, backup>>

\* C5 as stated: for a stored id, every updateStatus call with a non-null
\* lastCaptured adds exactly 1 to capture_count and sets last_captured; a call
\* without it leaves both unchanged; an unknown id returns false and changes
\* nothing.
C5_NonNullCaptureCounts ==
    [][call'.op = "updateStatus" =>
         IF call'.id \in DOMAIN dashboards
         THEN call'.ok /\ CaptureEffect(call'.last_captured # None)
         ELSE UnknownIdChangesNothing]_vars

\* C5 as amended: the same, a capture being reported by a lastCaptured that is
\* neither null nor the empty string.
C5_NonEmptyCaptureCounts ==
    [][call'.op = "updateStatus" =>
         IF call'.id \in DOMAIN dashboards
         THEN call'.ok /\ CaptureEffect(call'.last_captured \notin {None, ""})
         ELSE UnknownIdChangesNothing]_vars

\* C5 witness: a second capture of one dashboard has just been reported.
C5_Witness ==
    /\ call.op = "updateStatus" /\ call.ok /\ call.last_captured = "t1"
    /\ dashboards[call.id].capture_count = 2
    /\ dashboards[call.id].last_captured = "t1"

\* C6: while an id stays in the store its capture_count never decreases across
\* create, update, list operations, updateStatus and merge import, and it
\* changes only in an updateStatus call that reports a capture.
C6_CaptureCountMonotonic ==
    [][(call'.op \in MutatingOps \ {"deleteMany"}
        /\ ~(call'.op = "import" /\ ~call'.merge))
       => \A id \in (DOMAIN dashboards) \cap (DOMAIN dashboards') :
            /\ dashboards'[id].capture_count >= dashboards[id].capture_count
            /\ dashboards'[id].capture_count # dashboards[id].capture_count
                 => /\ call'.op = "updateStatus"
                    /\ call'.id = id
                    /\ call'.last_captured # None]_vars

\* C7: a successful update(id, partial) leaves the dashboard's id, created_at
\* and capture_count as they were, whatever partial supplies for them, and
\* leaves every other dashboard untouched.
C7_UpdateKeepsProtectedFields ==
    [][(call'.op = "update" /\ call'.ok) =>
         /\ call'.id \in DOMAIN dashboards
         /\ DOMAIN dashboards' = DOMAIN dashboards
         /\ dashboards'[call'.id].id = dashboards[call'.id].id
         /\ dashboards'[call'.id].created_at = dashboards[call'.id].created_at
         /\ dashboards'[call'.id].capture_count = dashboards[call'.id].capture_count
         /\ \A k \in (DOMAIN dashboards) \ {call'.id} : dashboards'[k] = dashboards[k]]_vars

\* C7 witness: an update whose partial supplies other values for all three
\* protected fields has just succeeded, with another dashboard in the store.
C7_Witness ==
    /\ call.op = "update" /\ call.ok
    /\ Cardinality(DOMAIN dashboards) = 2
    /\ Has(call.data, "id") /\ call.data.id # dashboards[call.id].id
    /\ Has(call.data, "created_at")
    /\ call.data.created_at # dashboards[call.id].created_at
    /\ Has(call.data, "capture_count")
    /\ call.data.capture_count # dashboards[call.id].capture_count

Renamed(old, new) ==
    /\ DOMAIN dashboards' = DOMAIN dashboards
    /\ \A k \in DOMAIN dashboards :
          LET before == dashboards[k].lists
              after == dashboards'[k].lists
          IN  /\ Len(after) = Len(before)
              /\ \A i \in 1..Len(before) :
                    after[i] = IF before[i] = old THEN new ELSE before[i]
              /\ old \notin Range(after)
    /\ new \in lists'
    /\ old \notin lists'

\* C9 as stated: after a successful renameList(old, new) with new different
\* from old, every dashboard that held old holds new in its place, no
\* dashboard holds old, the other dashboards' lists are unchanged, and the
\* global list set contains new and not old.
C9_RenameOfArguments ==
    [][(call'.op = "renameList" /\ call'.ok /\ call'.new # call'.old)
       => Renamed(call'.old, call'.new)]_vars

\* C9 as amended: the same of old and new with their leading and trailing
\* whitespace removed, when these differ.
C9_RenameOfTrimmedArguments ==
    [][(call'.op = "renameList" /\ call'.ok /\ Trim(call'.new) # Trim(call'.old))
       => Renamed(Trim(call'.old), Trim(call'.new))]_vars

\* C9 witness: a rename has just succeeded; one dashboard holds the new label
\* twice, where it held the old one, and another dashboard holds other labels.
C9_Witness ==
    /\ call.op = "renameList" /\ call.ok /\ Trim(call.new) # Trim(call.old)
    /\ \E k \in DOMAIN dashboards :
          \E i, j \in 1..Len(dashboards[k].lists) :
             i # j /\ dashboards[k].lists[i] = Trim(call.new)
                   /\ dashboards[k].lists[j] = Trim(call.new)
    /\ \E k \in DOMAIN dashboards :
          /\ dashboards[k].lists # <<>>
          /\ Trim(call.new) \notin Range(dashboards[k].lists)

\* The label a deleteList argument names: the argument as written when that is
\* a registered label, its trimmed form otherwise.
Named(name) == IF name \in lists THEN name ELSE Trim(name)

\* C10: deleteList(name) fails, changing nothing, exactly when name is blank or
\* names no member of the global list set; for every non-blank member of the
\* set, however it was registered, it succeeds, after which no dashboard holds
\* the label, the set does not contain it, and all else is unchanged.
C10_DeleteList ==
    [][call'.op = "deleteList" =>
         LET label == Named(call'.name)
         IN  /\ ~call'.ok <=> (Blank(call'.name) \/ label \notin lists)
             /\ ~call'.ok => (dashboards' = dashboards /\ lists' = lists)
             /\ call'.ok =>
                   /\ lists' = lists \ {label}
                   /\ DOMAIN dashboards' = DOMAIN dashboards
                   /\ \A k \in DOMAIN dashboards :
                         dashboards'[k].lists =
                             SelectSeq(dashboards[k].lists, LAMBDA l : l # label)]_vars

\* C11: exporting a store and importing the exported document with merge=false
\* yields the same set of dashboard ids, for each id the same name, url and
\* lists, and the same global list set.
C11_ExportImportRoundTrip ==
    [][(call.op = "export" /\ call'.op = "import") =>
         /\ DOMAIN dashboards' = DOMAIN dashboards
         /\ \A k \in DOMAIN dashboards :
               /\ dashboards'[k].name = dashboards[k].name
               /\ dashboards'[k].url = dashboards[k].url
               /\ dashboards'[k].lists = dashboards[k].lists
         /\ lists' = lists]_vars

\* The number of entries of a routing log that satisfy P.
Count(log, P(_)) == Cardinality({i \in 1..Len(log) : P(log[i])})

\* C12: in a successful import every record of the file is counted exactly
\* once, as updated (merge, id already stored, update succeeded), imported
\* (routed to create, create succeeded), skipped (the routed operation
\* failed) or an error; the four counts add up to the number of records and
\* the imported count is the number of creates that stored a record.
C12_ImportCountsEachRecordOnce ==
    [][(call'.op = "import" /\ call'.ok) =>
         LET res == call'.res
             recs == call'.file.data.dashboards
             first == Get(recs[1].d, "id", NoId)
         IN  /\ res.imported_dashboards + res.updated_dashboards
                   + res.skipped_dashboards + res.errors = Len(recs)
             /\ Len(res.log) = Len(recs)
             /\ res.updated_dashboards =
                   Count(res.log, LAMBDA e : e.route = "update" /\ e.ok)
             /\ res.imported_dashboards =
                   Count(res.log, LAMBDA e : e.route = "create" /\ e.ok)
             /\ res.skipped_dashboards =
                   Count(res.log, LAMBDA e : e.route # "error" /\ ~e.ok)
             /\ res.errors = Count(res.log, LAMBDA e : e.route = "error")
             /\ \A i \in 1..Len(recs) : res.log[i].route = "update" => call'.merge
             /\ recs # <<>> =>
                   (res.log[1].route = "update"
                      <=> (call'.merge /\ first \in DOMAIN dashboards))
             /\ res.imported_dashboards
                   >= Cardinality((DOMAIN dashboards') \ (DOMAIN dashboards))]_vars

\* C12 witness: a successful import has counted one record as updated, one as
\* imported, one as skipped and one as an error.
C12_Witness ==
    /\ call.op = "import" /\ call.ok
    /\ call.res.updated_dashboards = 1 /\ call.res.imported_dashboards = 1
    /\ call.res.skipped_dashboards = 1 /\ call.res.errors = 1

\* C13: an id removed by delete or deleteMany is never again a key of the
\* store, whatever create or import follows, and the id field of a stored
\* dashboard never changes.  (In SpecCUD ids leave the store by deleteMany
\* only, so the issued ids that are not stored are the deleted ones.)
C13_IdNeverReused ==
    [][/\ \A k \in issued \ DOMAIN dashboards : k \notin DOMAIN dashboards'
       /\ \A k \in (DOMAIN dashboards) \cap (DOMAIN dashboards') :
             dashboards'[k].id = dashboards[k].id]_vars

\* C14: in every reachable state no dashboard's lists holds a label more than
\* once.
C14_ListsHaveNoDuplicates ==
    \A k \in DOMAIN dashboards :
       \A i, j \in 1..Len(dashboards[k].lists) :
          dashboards[k].lists[i] = dashboards[k].lists[j] => i = j

\* q occurs in s: some position of s starts a copy of q.
Occurs(q, s) ==
    \E i \in 1..(Len(s) + 1) :
       \A j \in 1..Len(q) : i + j - 1 <= Len(s) /\ s[i + j - 1] = q[j]

\* The dashboards in which q, compared case-insensitively, is a substring of
\* the name, the url, the description or a label.
Matching(q) ==
    {k \in DOMAIN dashboards :
        \/ Occurs(lower(q), lower(dashboards[k].name))
        \/ Occurs(lower(q), lower(dashboards[k].url))
        \/ Occurs(lower(q), lower(dashboards[k].description))
        \/ \E i \in 1..Len(dashboards[k].lists) :
              Occurs(lower(q), lower(dashboards[k].lists[i]))}

\* The result of the last search holds exactly the dashboards of S, each once.
SearchReturned(S) ==
    /\ Range(call.result) = S
    /\ \A i, j \in 1..Len(call.result) : call.result[i] = call.result[j] => i = j

\* C15 as stated: search(q) returns exactly the dashboards in which q,
\* compared case-insensitively, is a substring of the name, the url, the
\* description or a label, each once; the empty query returns all.
C15_SearchOfQuery ==
    call.op = "search" =>
       /\ SearchReturned(Matching(call.query))
       /\ call.query = <<>> => Range(call.result) = DOMAIN dashboards

\* C15 as amended: the same of q with its leading and trailing whitespace
\* removed; a query that is empty or blank returns all dashboards.
C15_SearchOfTrimmedQuery ==
    call.op = "search" =>
       /\ SearchReturned(Matching(Trim(call.query)))
       /\ Blank(call.query) => Range(call.result) = DOMAIN dashboards

\* C15 witness: a search with a padded query in capitals has returned one of
\* two stored dashboards, matched both by its name and by its description.
C15_Witness ==
    /\ call.op = "search" /\ call.query # Trim(call.query)
    /\ call.query # lower(call.query)
    /\ Len(call.result) = 1 /\ Cardinality(DOMAIN dashboards) = 2
    /\ Occurs(lower(Trim(call.query)), lower(dashboards[call.result[1]].name))
    /\ Occurs(lower(Trim(call.query)), lower(dashboards[call.result[1]].description))

\* C16: in the statistics, the usage count of every label of the global list
\* set is the number of stored dashboards whose lists contains the label, and
\* the count of dashboards without labels is the number of dashboards whose
\* lists is empty.
C16_StatisticsCountDashboards ==
    call.op = "stats" =>
       /\ DOMAIN call.stats.list_usage = lists
       /\ \A l \in lists :
             call.stats.list_usage[l] =
                Cardinality({k \in DOMAIN dashboards : l \in Range(dashboards[k].lists)})
       /\ call.stats.dashboards_without_lists =
             Cardinality({k \in DOMAIN dashboards : Len(dashboards[k].lists) = 0})

\* C17: after the load of a backing document that is adopted, every in-memory
\* record has every field of the Dashboard schema, and the fields the record
\* had on disk keep their on-disk value.
C17_LoadedRecordsHaveFullSchema ==
    (call.op = "load" /\ call.adopted) =>
       /\ DOMAIN dashboards = DOMAIN file.dashboards
       /\ \A k \in DOMAIN dashboards :
             /\ Schema \subseteq DOMAIN dashboards[k]
             /\ \A f \in DOMAIN file.dashboards[k] :
                   dashboards[k][f] = file.dashboards[k][f]

\* C18: immediately after a successful delete or deleteMany, and after a
\* successful update whose partial contains lists, the global list set is
\* exactly the union of the lists of the stored dashboards.
C18_PrunedAfterDeleteAndUpdate ==
    (call.op \in {"deleteMany", "update"} /\ call.ok
       /\ (call.op = "update" => Has(call.data, "lists")))
    => lists = UnionOfLists(dashboards)

\* C18 witness: a delete has just succeeded and left a dashboard that holds
\* two labels, which are the global list set.
C18_Witness ==
    /\ call.op = "deleteMany" /\ call.ok
    /\ \E k \in DOMAIN dashboards : Cardinality(Range(dashboards[k].lists)) = 2
    /\ Cardinality(lists) = 2

\* The step is a call that changed the store in memory and so ran one save.
Saves == call'.op # "idle" /\ call'.ok

\* C19: when the backing file exists and its copy to .backup fails during a
\* save, the save still writes the in-memory state to the backing file (the
\* write itself succeeding), and the file is not replaced by an older backup.
C19_BackupFailureIsNotFatal ==
    [][(Saves /\ file # NoFile /\ call'.io.backup = "fail" /\ call'.io.write = "ok")
       => file' = Document(dashboards', lists')]_vars

\* C20: when the write of the backing file fails during a save and the
\* restore from .backup succeeds, the backing file afterwards holds the
\* content it had immediately before the save began.
C20_RestoreGivesLastSavedState ==
    [][(Saves /\ (file = NoFile \/ call'.io.backup = "ok") /\ call'.io.write # "ok"
          /\ backup' # NoFile /\ call'.io.restore = "ok")
       => file' = file]_vars

\* C20 witness: a save whose write broke off in json.dump has been restored:
\* the file equals its .backup, holds the one dashboard saved before the call
\* and is not the in-memory state of two dashboards.
C20_Witness ==
    /\ call.op # "idle" /\ call.ok /\ call.io.backup = "ok"
    /\ call.io.write = "fail_dump" /\ call.io.restore = "ok"
    /\ file.kind = "doc" /\ file = backup
    /\ file # Document(dashboards, lists)
    /\ Cardinality(DOMAIN file.dashboards) = 1 /\ Cardinality(DOMAIN dashboards) = 2

\* The step ended as the call r, made with a save that cannot fail, ends: the
\* same result and the same dashboards and lists in memory.
EndsAs(r) ==
    /\ call'.ok = r.ok
    /\ dashboards' = r.st.dashboards
    /\ lists' = r.st.lists

\* The step ended as its call would have ended had every save succeeded.
EndsAsWithoutFailure ==
    LET c == call'
    IN  \E now \in InSave.now, ord \in InSave.ords :
          CASE c.op = "create" ->
                 \E newid \in Ids \cup {NoId} :
                    /\ newid \in DOMAIN dashboards => Has(c.data, "id")
                    /\ EndsAs(add_dashboard(St, c.data, now, newid, IoOk))
            [] c.op = "update" -> EndsAs(update_dashboard(St, c.id, c.data, now, ord, IoOk))
            [] c.op = "deleteMany" -> EndsAs(delete_dashboards(St, c.ids, IoOk))
            [] c.op = "addList" -> EndsAs(add_list(St, c.name, IoOk))
            [] c.op = "renameList" -> EndsAs(rename_list(St, c.old, c.new, now, IoOk))
            [] c.op = "deleteList" -> EndsAs(delete_list(St, c.name, now, IoOk))
            [] c.op = "updateStatus" ->
                 EndsAs(update_dashboard_status(St, c.id, c.status, c.last_captured,
                                                now, IoOk))
            [] OTHER -> TRUE

\* C21: a failure of the save (backup copy, write or restore) during a
\* mutating operation never changes the operation's result: the call returns
\* what it returns when the save succeeds, it returns success whenever memory
\* was changed, and the change stays in memory.
C21_SaveFailureKeepsResult ==
    [][(call'.op # "idle" /\ call'.io # IoOk) =>
         /\ EndsAsWithoutFailure
         /\ (dashboards' # dashboards \/ lists' # lists) => call'.ok]_vars

\* C21 witness: a call has returned success with its change in memory while
\* the write of the backing file failed and nothing was restored.
C21_Witness ==
    /\ call.op = "renameList" /\ call.ok
    /\ call.io.write = "fail_dump" /\ call.io.restore = "fail"
    /\ call.new \in lists /\ file = Partial

\* Processing the record raises in the import loop: it is not a mapping, or
\* (merge) its id cannot be looked up in the dashboards map.
Raises(rec, merge) ==
    rec.kind = "nonmapping" \/ (merge /\ Get(rec.d, "id", NoId) = UnhashableId)

\* C22: in an import whose file is read and whose lists are taken over, a
\* record whose processing raises is recorded in errors and does not stop
\* the import: every record is processed and the result is a success.
C22_RecordErrorsDoNotStopImport ==
    (/\ call.op = "import" /\ call.file.readable /\ Has(call.file.data, "dashboards")
     /\ UnhashableLabel \notin Range(Get(call.file.data, "lists", <<>>)))
    => LET recs == call.file.data.dashboards
       IN  /\ call.ok
           /\ Len(call.res.log) = Len(recs)
           /\ call.res.errors =
                 Cardinality({i \in 1..Len(recs) : Raises(recs[i], call.merge)})

\* C23: whenever import returns a failure result, the dashboards map and the
\* global list set in memory are the same as before the call.
C23_FailedImportChangesNothing ==
    [][(call'.op = "import" /\ ~call'.ok)
       => (dashboards' = dashboards /\ lists' = lists)]_vars

\* C24: starting from an empty store, in every reachable state every label of
\* the global list set and every label of a dashboard's lists is non-blank.
C24_NoBlankLabels ==
    \A l \in lists \cup UnionOfLists(dashboards) : ~Blank(l)

\* C25: every entry of the dashboards map is stored under the key equal to
\* its record's id, and a successful create adds exactly one entry and
\* leaves every dashboard stored before as it was.
C25_CreateAddsOneEntry ==
    [][/\ \A k \in DOMAIN dashboards' : dashboards'[k].id = k
       /\ (call'.op = "create" /\ call'.ok) =>
             /\ Cardinality((DOMAIN dashboards') \ (DOMAIN dashboards)) = 1
             /\ \A k \in DOMAIN dashboards :
                   k \in DOMAIN dashboards' /\ dashboards'[k] = dashboards[k]]_vars

====
